---- MODULE Spec2Model ----
(***************************************************************************)
(* A model of salt/modules/chefapi.py: the API facade (REST calls through  *)
(* chef.ChefAPI) and the client facade (chef-client discovery, version,    *)
(* run).  Python values are tagged records [t |-> type name, v |-> value]; *)
(* an optional argument is <<>> for None and <<x>> for a supplied x.       *)
(* Strings are TLA+ strings, built with \o as the code builds them with    *)
(* % and +=; the captured output of a process is a sequence of one         *)
(* character strings so that str.split can be computed on it.              *)
(***************************************************************************)
EXTENDS Integers, Sequences, FiniteSets, TLC

\* ---------------------------------------------------------------- bounds
MaxStart == 5      \* search: start ranges over -1 .. MaxStart
MaxLimit == 10     \* search: limit ranges over None, 0 .. MaxLimit
MaxRunList == 2    \* run: a run_list holds at most MaxRunList entries
MaxOutLen == 3     \* cmd.run: captured output holds at most MaxOutLen characters

\* ------------------------------------------------------- python values
None == <<>>
Some(x) == <<x>>
IsNone(o) == o = <<>>
Val(o) == o[1]

PyFalse == [t |-> "bool", v |-> "False"]
PyNone == [t |-> "NoneType", v |-> "None"]
PyStr(s) == [t |-> "str", v |-> s]
NoExc == "none"

\* '%d' % n for an integer n
Digit(d) == CASE d = 0 -> "0" [] d = 1 -> "1" [] d = 2 -> "2" [] d = 3 -> "3"
              [] d = 4 -> "4" [] d = 5 -> "5" [] d = 6 -> "6" [] d = 7 -> "7"
              [] d = 8 -> "8" [] d = 9 -> "9"
RECURSIVE NatToStr(_)
NatToStr(n) == IF n < 10 THEN Digit(n) ELSE NatToStr(n \div 10) \o Digit(n % 10)
FormatD(n) == IF n < 0 THEN "-" \o NatToStr(0 - n) ELSE NatToStr(n)

\* sep.join(items) for a sequence of strings
RECURSIVE Join(_, _)
Join(sep, items) ==
  IF Len(items) = 0 THEN ""
  ELSE IF Len(items) = 1 THEN items[1]
  ELSE items[1] \o sep \o Join(sep, Tail(items))

\* s.split(sep) for a sequence of characters s and a single character sep:
\* the fields between consecutive occurrences of sep, empty fields kept
RECURSIVE Split(_, _)
Split(s, sep) ==
  IF \A i \in 1..Len(s) : s[i] # sep THEN <<s>>
  ELSE LET k == CHOOSE i \in 1..Len(s) :
                  s[i] = sep /\ \A j \in 1..(i - 1) : s[j] # sep
       IN <<SubSeq(s, 1, k - 1)>> \o Split(SubSeq(s, k + 1, Len(s)), sep)

\* ------------------------------------------------------------- the state
VARIABLES
  HAS_CHEF,        \* "True" when `import chef` succeeded, "unbound" otherwise
  config,          \* the minion's options: option name -> None or Some(value)
  which,           \* what cmd.which('chef-client') answers: None or Some(path)
  files,           \* the paths for which os.path.isfile is true
  pc,              \* "idle", "request" (inside api_request), "exec" (inside
                   \* cmd.run) or "done"
  call,            \* the operation in progress and its arguments
  result,          \* the value returned, PyNone while there is none
  raised,          \* the exception that left the operation, or NoExc
  requests,        \* the api_request calls made, in order
  exec_calls,      \* the command lines handed to cmd.run, in order
  exec_results,    \* how each finished cmd.run call ended, in order
  tmpjson,         \* the temporary file of this invocation
  isfile_log,      \* the paths os.path.isfile was asked about
  option_log       \* the option names config.option was asked about

env == <<HAS_CHEF, config, which, files>>
vars == <<HAS_CHEF, config, which, files, pc, call, result,
          raised, requests, exec_calls, exec_results, tmpjson, isfile_log,
          option_log>>

\* whether the global name `tempfile` resolves in the module: the module
\* imports os, salt, salt.version and salt.loader only, so line 290 raises
\* NameError
tempfile_bound == FALSE

\* __salt__['config.option'](name, default)
config_option(name, default) ==
  IF IsNone(config[name]) THEN default ELSE Val(config[name])

NoTmp == [state |-> "none", name |-> "", content |-> "", created |-> 0]
NoCall == [op |-> "none"]

Idle ==
  /\ pc = "idle"
  /\ call = NoCall
  /\ result = PyNone
  /\ raised = NoExc
  /\ requests = <<>>
  /\ exec_calls = <<>>
  /\ exec_results = <<>>
  /\ tmpjson = NoTmp
  /\ isfile_log = {}
  /\ option_log = {}

OptionNames == {"chef.api.host", "chef.api.port", "chef.api.key",
                "chef.api.user", "chef.client.skipfile"}
NoConfig == [n \in OptionNames |-> None]

\* ============================================================ API facade
ApiHost == "chef.example.com"
ChefStates == {"True", "unbound"}
Names == {"web01", "db01"}
Items == {"item1"}
Indexes == {"node", "role"}
Queries == {"name:web*", "key:search_pattern"}
Sorts == {"name DESC", ""}
\* what the server answers: a JSON object, modelled by its set of keys
Responses == {{}, {"web01"}, {"web01", "db01"}}
ListOps == {"list_nodes", "list_roles", "list_clients", "list_data"}

\* _get_api: the client, or None, or the NameError of the unbound HAS_CHEF
get_api ==
  IF HAS_CHEF = "unbound" THEN [exc |-> "NameError", api |-> None, read |-> {}]
  ELSE IF HAS_CHEF = "True" THEN
    [exc |-> NoExc,
     api |-> Some([url |-> "http://" \o config_option("chef.api.host", "localhost")
                            \o ":" \o config_option("chef.api.port", "4000"),
                   key |-> config_option("chef.api.key", ""),
                   user |-> config_option("chef.api.user", "")]),
     read |-> {"chef.api.host", "chef.api.port", "chef.api.key", "chef.api.user"}]
  ELSE [exc |-> NoExc, api |-> None, read |-> {}]

\* _call_api(method, endpoint) up to the api_request call: status is
\* "raise" (an exception left it), "return" (it returned False) or "request"
\* (api_request has been called and the answer is awaited)
call_api(method, endpoint) ==
  LET got == get_api
      base == [status |-> "return", exc |-> NoExc, ret |-> PyNone, reqs |-> <<>>,
               read |-> got.read]
  IN
  IF got.exc # NoExc THEN [base EXCEPT !.status = "raise", !.exc = got.exc]
  ELSE IF IsNone(got.api) THEN [base EXCEPT !.ret = PyFalse]
  ELSE [base EXCEPT !.status = "request",
                    !.reqs = <<[url |-> Val(got.api).url, method |-> method,
                                endpoint |-> endpoint]>>]

\* X.keys() on what _call_api returned without a request: False has no keys
keys_of(r) ==
  IF r.status # "return" THEN r
  ELSE [r EXCEPT !.status = "raise", !.exc = "AttributeError", !.ret = PyNone]

\* the endpoint search builds
Mut_search_endpoint_truthy(index, query, start, limit, sort) ==
  "/search/" \o index \o "?q=" \o query \o "&start=" \o FormatD(start)
    \o (IF ~IsNone(limit) /\ Val(limit) # 0 THEN "&rows=" \o FormatD(Val(limit)) ELSE "")
    \o (IF ~IsNone(sort) /\ Val(sort) # "" THEN "&sort=" \o Val(sort) ELSE "")
search_endpoint(index, query, start, limit, sort) ==
  LET e0 == "/search/" \o index \o "?q=" \o query \o "&start=" \o FormatD(start)
      e1 == IF ~IsNone(limit) THEN e0 \o "&rows=" \o FormatD(Val(limit)) ELSE e0
      e2 == IF ~IsNone(sort) THEN e1 \o "&sort=" \o Val(sort) ELSE e1
  IN e2

\* an API operation from its call to the api_request call, or to its end
\* when no request is made
Begin(c, r) ==
  /\ pc = "idle"
  /\ pc' = IF r.status = "request" THEN "request" ELSE "done"
  /\ call' = c
  /\ result' = r.ret
  /\ raised' = r.exc
  /\ requests' = requests \o r.reqs
  /\ option_log' = option_log \cup r.read
  /\ UNCHANGED <<env, exec_calls, exec_results, tmpjson, isfile_log>>

\* line 60: api_request returns the parsed answer; list_* take its keys
api_request_returns ==
  /\ pc = "request"
  /\ \E keys \in Responses :
       result' = [t |-> IF call.op \in ListOps THEN "keys" ELSE "dict", v |-> keys]
  /\ pc' = "done"
  /\ UNCHANGED <<env, call, raised, requests, exec_calls, exec_results, tmpjson,
                 isfile_log, option_log>>

\* line 60: api_request raises; nothing in the module catches it
api_request_raises ==
  /\ pc = "request"
  /\ raised' = "ChefServerError"
  /\ pc' = "done"
  /\ UNCHANGED <<env, call, result, requests, exec_calls, exec_results, tmpjson,
                 isfile_log, option_log>>

list_nodes == Begin([op |-> "list_nodes"], keys_of(call_api("GET", "/nodes")))
list_roles == Begin([op |-> "list_roles"], keys_of(call_api("GET", "/roles")))
list_clients == Begin([op |-> "list_clients"], keys_of(call_api("GET", "/clients")))
list_data == Begin([op |-> "list_data"], keys_of(call_api("GET", "/data")))

StartValues == (-1)..MaxStart
LimitValues == {None} \cup {Some(n) : n \in 0..MaxLimit}
SortValues == {None} \cup {Some(s) : s \in Sorts}

search ==
  \E index \in Indexes, query \in Queries, start \in StartValues,
     limit \in LimitValues, sort \in SortValues :
    Begin([op |-> "search", index |-> index, query |-> query, start |-> start,
            limit |-> limit, sort |-> sort],
           call_api("GET", search_endpoint(index, query, start, limit, sort)))

node ==
  \E name \in Names :
    Begin([op |-> "node", name |-> name],
           call_api("GET", "/nodes/" \o name))
role ==
  \E name \in Names :
    Begin([op |-> "role", name |-> name],
           call_api("GET", "/roles/" \o name))
client ==
  \E name \in Names :
    Begin([op |-> "client", name |-> name],
           call_api("GET", "/clients/" \o name))
data ==
  \E name \in Names, item \in {None} \cup {Some(i) : i \in Items} :
    Begin([op |-> "data", name |-> name, item |-> item],
           IF IsNone(item)
             THEN call_api("GET", "/data/" \o name)
             ELSE call_api("GET", "/data/" \o name \o "/" \o Val(item)))
delete_node ==
  \E name \in Names :
    Begin([op |-> "delete_node", name |-> name],
           call_api("DELETE", "/nodes/" \o name))
delete_role ==
  \E name \in Names :
    Begin([op |-> "delete_role", name |-> name],
           call_api("DELETE", "/roles/" \o name))
delete_client ==
  \E name \in Names :
    Begin([op |-> "delete_client", name |-> name],
           call_api("DELETE", "/clients/" \o name))

\* the caller takes the result; the next call starts from a clean slate
Return ==
  /\ pc = "done"
  /\ pc' = "idle"
  /\ call' = NoCall
  /\ result' = PyNone
  /\ raised' = NoExc
  /\ requests' = <<>>
  /\ exec_calls' = <<>>
  /\ exec_results' = <<>>
  /\ tmpjson' = NoTmp
  /\ isfile_log' = {}
  /\ option_log' = {}
  /\ UNCHANGED env

InitApi ==
  /\ HAS_CHEF \in ChefStates
  /\ config \in {[NoConfig EXCEPT !["chef.api.host"] = h] : h \in {None, Some(ApiHost)}}
  /\ which = None
  /\ files = {}
  /\ Idle

NextApi ==
  \/ list_nodes
  \/ list_roles
  \/ list_clients
  \/ list_data
  \/ search
  \/ node
  \/ role
  \/ client
  \/ data
  \/ delete_node
  \/ delete_role
  \/ delete_client
  \/ api_request_returns
  \/ api_request_raises
  \/ Return

SpecApi == InitApi /\ [][NextApi]_vars

ApiOps == {"list_nodes", "list_roles", "list_clients", "list_data", "search",
           "node", "role", "client", "data", "delete_node", "delete_role",
           "delete_client"}

\* ========================================================= client facade
WhichPath == "/usr/bin/chef-client"
OptChef == "/opt/chef/bin/chef-client"
OptOpscode == "/opt/opscode/bin/chef-client"
DefaultSkipfile == "/etc/chef/no_chef_run"
CustomSkipfile == "/etc/chef/skip_custom"
KeyFile == "/etc/chef/custom.pem"
ValidationKey == "/var/tmp/newchef.pem"
NotFoundMessage == "Unable to locate chef-client executable."

isfile(path) == path \in files

\* _get_chef_client: the executable, and the paths os.path.isfile was asked
Mut_get_chef_client_opscode_first ==
  IF ~IsNone(which) THEN [cmd |-> which, probed |-> {}]
  ELSE IF isfile(OptOpscode) THEN [cmd |-> Some(OptOpscode), probed |-> {OptOpscode}]
  ELSE IF isfile(OptChef) THEN [cmd |-> Some(OptChef), probed |-> {OptChef, OptOpscode}]
  ELSE [cmd |-> None, probed |-> {OptChef, OptOpscode}]
get_chef_client ==
  IF ~IsNone(which) THEN [cmd |-> which, probed |-> {}]
  ELSE IF isfile(OptChef) THEN [cmd |-> Some(OptChef), probed |-> {OptChef}]
  ELSE IF isfile(OptOpscode) THEN [cmd |-> Some(OptOpscode), probed |-> {OptChef, OptOpscode}]
  ELSE [cmd |-> None, probed |-> {OptChef, OptOpscode}]

\* the captured output of a process: sequences of characters
OutChars == {"C", "1", " ", "\t", "\n"}
SeqsUpTo(S, n) == UNION {[1..k -> S] : k \in 0..n}
Outputs == SeqsUpTo(OutChars, MaxOutLen)
PyChars(s) == [t |-> "chars", v |-> s]
Last(s) == s[Len(s)]

\* what version makes of the output of `chef-client -v`
Mut_version_token_first(out) == Split(out, " ")[1]
version_token(out) == Last(Split(out, " "))

\* how a cmd.run call ends: it returns the captured output or it raises
Returned(out) == [exc |-> NoExc, out |-> out]
Failed == [exc |-> "CommandExecutionError", out |-> <<>>]

\* version() up to the cmd.run call of line 192, or to its return when no
\* executable is located
version ==
  /\ pc = "idle"
  /\ LET got == get_chef_client IN
     /\ isfile_log' = isfile_log \cup got.probed
     /\ call' = [op |-> "version"]
     /\ raised' = NoExc
     /\ IF IsNone(got.cmd)
          THEN /\ pc' = "done"
               /\ result' = PyStr(NotFoundMessage)
               /\ exec_calls' = exec_calls
          ELSE /\ pc' = "exec"
               /\ result' = PyNone
               /\ exec_calls' = Append(exec_calls, Val(got.cmd) \o " -v")
  /\ UNCHANGED <<env, requests, exec_results, tmpjson, option_log>>

\* line 192: cmd.run returns; version keeps the last field of the output
version_cmd_run_returns ==
  /\ pc = "exec"
  /\ call.op = "version"
  /\ \E out \in Outputs :
       /\ exec_results' = Append(exec_results, Returned(out))
       /\ result' = PyChars(version_token(out))
  /\ pc' = "done"
  /\ UNCHANGED <<env, call, raised, requests, exec_calls, tmpjson, isfile_log,
                 option_log>>

\* lines 193-194: cmd.run raises; the Exception becomes False
version_cmd_run_raises ==
  /\ pc = "exec"
  /\ call.op = "version"
  /\ exec_results' = Append(exec_results, Failed)
  /\ result' = PyFalse
  /\ pc' = "done"
  /\ UNCHANGED <<env, call, raised, requests, exec_calls, tmpjson, isfile_log,
                 option_log>>

InitClient ==
  /\ HAS_CHEF = "unbound"
  /\ config = NoConfig
  /\ which \in {None, Some(WhichPath)}
  /\ files \in SUBSET {OptChef, OptOpscode}
  /\ Idle

NextClient ==
  \/ version
  \/ version_cmd_run_returns
  \/ version_cmd_run_raises
  \/ Return

SpecClient == InitClient /\ [][NextClient]_vars

\* ------------------------------------------------------------------ run
\* force as the caller passes it, by its Python literal; run compares it
\* with `is False`
ForceValues == {"False", "True", "0", "''", "None"}
RunListEntries == {"role[global]", "recipe[awesome::server]"}
RunLists == SeqsUpTo(RunListEntries, MaxRunList)
\* a run_list: absent, a list, or a value that is not a list (the string a
\* caller passes for a single entry)
RunListValues ==
  {[t |-> "NoneType", v |-> <<>>]}
    \cup {[t |-> "list", v |-> l] : l \in RunLists}
    \cup {[t |-> "str", v |-> <<"role[global]">>]}
DryRunValues == {None, Some("True"), Some("False")}
\* tempfile.TemporaryFile().name: no path where the file is anonymous
\* ('<fdopen>', or the descriptor number), a path where the platform names it
TmpNames == {"<fdopen>", "/tmp/tmpa1b2c3"}
RunOutputs == {<<>>, <<"C">>, <<"\n">>, <<"C", "\n", "1">>}

\* the skip-file path run resolves
Mut_skipfile_path_default == DefaultSkipfile
skipfile_path == config_option("chef.client.skipfile", DefaultSkipfile)

\* `force is False`
force_is_False(force) == force = "False"

\* lines 289-292: the temporary file and its flag.  nm is the name the file
\* gets, wr whether write() succeeds: writing a str to the binary-mode file
\* raises TypeError on Python 3 and succeeds on Python 2
Mut_run_list_file_closes_early(run_list, nm, wr) ==
  IF run_list.t # "list" THEN [exc |-> NoExc, tmp |-> NoTmp, flag |-> ""]
  ELSE [exc |-> NoExc,
        tmp |-> [state |-> "closed", name |-> nm, created |-> 1,
                 content |-> "{\"run_list\": [" \o Join(",", run_list.v) \o "]}"],
        flag |-> " --json-attributes " \o nm]
run_list_file(run_list, nm, wr) ==
  IF run_list.t # "list" THEN [exc |-> NoExc, tmp |-> NoTmp, flag |-> ""]
  ELSE IF ~tempfile_bound THEN [exc |-> "NameError", tmp |-> NoTmp, flag |-> ""]
  ELSE IF ~wr
    THEN [exc |-> "TypeError",
          tmp |-> [state |-> "open", name |-> nm, content |-> "", created |-> 1],
          flag |-> ""]
  ELSE [exc |-> NoExc,
        tmp |-> [state |-> "open", name |-> nm, created |-> 1,
                 content |-> "{\"run_list\": [" \o Join(",", run_list.v) \o "]}"],
        flag |-> " --json-attributes " \o nm]

\* lines 294-315: the flags after the run_list flag, and the paths probed
Mut_option_flags_dry_run_truthy(a) ==
  [flags |->
     (IF ~IsNone(a.key_file) /\ isfile(Val(a.key_file))
        THEN " --client_key " \o Val(a.key_file) ELSE "")
     \o (IF ~IsNone(a.validation_key) /\ isfile(Val(a.validation_key))
        THEN " --validation_key " \o Val(a.validation_key) ELSE "")
     \o (IF ~IsNone(a.server) THEN " --server " \o Val(a.server) ELSE "")
     \o (IF ~IsNone(a.environment) THEN " --environment " \o Val(a.environment) ELSE "")
     \o (IF ~IsNone(a.log_level) THEN " --log_level " \o Val(a.log_level) ELSE "")
     \o (IF ~IsNone(a.node_name) THEN " --node-name " \o Val(a.node_name) ELSE "")
     \o (IF a.dry_run = Some("True") THEN " --why-run" ELSE ""),
   probed |-> (IF IsNone(a.key_file) THEN {} ELSE {Val(a.key_file)})
                \cup (IF IsNone(a.validation_key) THEN {} ELSE {Val(a.validation_key)})]
option_flags(a) ==
  LET c1 == IF ~IsNone(a.key_file) /\ isfile(Val(a.key_file))
              THEN " --client_key " \o Val(a.key_file) ELSE ""
      c2 == IF ~IsNone(a.validation_key) /\ isfile(Val(a.validation_key))
              THEN c1 \o " --validation_key " \o Val(a.validation_key) ELSE c1
      c3 == IF ~IsNone(a.server) THEN c2 \o " --server " \o Val(a.server) ELSE c2
      c4 == IF ~IsNone(a.environment)
              THEN c3 \o " --environment " \o Val(a.environment) ELSE c3
      c5 == IF ~IsNone(a.log_level)
              THEN c4 \o " --log_level " \o Val(a.log_level) ELSE c4
      c6 == IF ~IsNone(a.node_name)
              THEN c5 \o " --node-name " \o Val(a.node_name) ELSE c5
      c7 == IF ~IsNone(a.dry_run) THEN c6 \o " --why-run" ELSE c6
  IN [flags |-> c7,
      probed |-> (IF IsNone(a.key_file) THEN {} ELSE {Val(a.key_file)})
                   \cup (IF IsNone(a.validation_key) THEN {}
                         ELSE {Val(a.validation_key)})]

\* lines 276-315: run up to the cmd.run call.  status is "return" (an early
\* return), "raise" (an exception left run) or "exec" (cmd.run is called)
run_prepare(a, nm, wr) ==
  LET got == get_chef_client
      base == [status |-> "return", ret |-> PyNone, exc |-> NoExc, cmd |-> "",
               tmp |-> NoTmp, probed |-> got.probed, read |-> {}]
  IN
  IF IsNone(got.cmd) THEN [base EXCEPT !.ret = PyStr(NotFoundMessage)]
  ELSE
    LET gate == force_is_False(a.force)
        skipfile == skipfile_path
        afterGate == IF gate
                       THEN [base EXCEPT !.probed = @ \cup {skipfile},
                                         !.read = {"chef.client.skipfile"}]
                       ELSE base
    IN
    IF gate /\ isfile(skipfile)
      THEN [afterGate EXCEPT
              !.ret = PyStr("Skipfile is present at " \o skipfile \o ", skipping")]
    ELSE
      LET f == run_list_file(a.run_list, nm, wr) IN
      IF f.exc # NoExc
        THEN [afterGate EXCEPT !.status = "raise", !.exc = f.exc, !.tmp = f.tmp]
      ELSE
        LET o == option_flags(a) IN
        [afterGate EXCEPT !.status = "exec",
                          !.cmd = Val(got.cmd) \o f.flag \o o.flags,
                          !.tmp = f.tmp,
                          !.probed = @ \cup o.probed]

\* run is called and proceeds to its first return, exception or cmd.run call
run(Args) ==
  /\ pc = "idle"
  /\ \E a \in Args, nm \in TmpNames, wr \in BOOLEAN :
       LET p == run_prepare(a, nm, wr) IN
       /\ call' = [op |-> "run", args |-> a]
       /\ pc' = IF p.status = "exec" THEN "exec" ELSE "done"
       /\ result' = p.ret
       /\ raised' = p.exc
       /\ exec_calls' = IF p.status = "exec" THEN Append(exec_calls, p.cmd)
                        ELSE exec_calls
       /\ tmpjson' = p.tmp
       /\ isfile_log' = isfile_log \cup p.probed
       /\ option_log' = option_log \cup p.read
  /\ UNCHANGED <<env, requests, exec_results>>

\* lines 318-325: cmd.run returns; split the output, close the file, return
release(t) == IF t.state = "none" THEN t ELSE [t EXCEPT !.state = "closed"]

cmd_run_returns ==
  /\ pc = "exec"
  /\ call.op = "run"
  /\ \E out \in RunOutputs :
       /\ exec_results' = Append(exec_results, Returned(out))
       /\ result' = [t |-> "list", v |-> Split(out, "\n")]
  /\ tmpjson' = release(tmpjson)
  /\ pc' = "done"
  /\ UNCHANGED <<env, call, raised, requests, exec_calls, isfile_log, option_log>>

\* line 318: cmd.run raises; nothing in run catches it, lines 321-322 are
\* not reached
cmd_run_raises ==
  /\ pc = "exec"
  /\ call.op = "run"
  /\ exec_results' = Append(exec_results, Failed)
  /\ raised' = Failed.exc
  /\ pc' = "done"
  /\ UNCHANGED <<env, call, result, requests, exec_calls, tmpjson, isfile_log,
                 option_log>>

\* run with every force value and run_list, the other options absent
RunArgsGate ==
  [force : ForceValues, run_list : RunListValues, key_file : {None},
   validation_key : {None}, server : {None}, environment : {None},
   log_level : {None}, node_name : {None}, dry_run : {None}]

InitRun ==
  /\ HAS_CHEF = "unbound"
  /\ config \in {[NoConfig EXCEPT !["chef.client.skipfile"] = p] :
                   p \in {None, Some(CustomSkipfile)}}
  /\ which \in {None, Some(WhichPath)}
  /\ files \in SUBSET {OptChef, DefaultSkipfile, CustomSkipfile}
  /\ Idle

NextRun ==
  \/ run(RunArgsGate)
  \/ cmd_run_returns
  \/ cmd_run_raises
  \/ Return

SpecRun == InitRun /\ [][NextRun]_vars

\* run with every combination of the options that add flags
RunArgsCmd ==
  [force : {"False", "True"}, run_list : RunListValues,
   key_file : {None, Some(KeyFile)},
   validation_key : {None, Some(ValidationKey)},
   server : {None, Some("http://otherchef.example.com:4000")},
   environment : {None, Some("testing")},
   log_level : {None, Some("debug")},
   node_name : {None, Some("awesome.example.com")},
   dry_run : DryRunValues]

InitRunCmd ==
  /\ HAS_CHEF = "unbound"
  /\ config = NoConfig
  /\ which = Some(WhichPath)
  /\ files \in SUBSET {KeyFile, ValidationKey, DefaultSkipfile}
  /\ Idle

NextRunCmd ==
  \/ run(RunArgsCmd)
  \/ cmd_run_returns
  \/ cmd_run_raises
  \/ Return

SpecRunCmd == InitRunCmd /\ [][NextRunCmd]_vars

\* ================================================================ claims
\* what the claims call the located executable and the resolved skip-file
Located ==
  IF ~IsNone(which) THEN which
  ELSE IF OptChef \in files THEN Some(OptChef)
  ELSE IF OptOpscode \in files THEN Some(OptOpscode)
  ELSE None
ResolvedSkipfile ==
  IF IsNone(config["chef.client.skipfile"]) THEN DefaultSkipfile
  ELSE Val(config["chef.client.skipfile"])
IsFalse(r) == r.t = "bool" /\ r.v = "False"
IsStr(r, s) == r.t = "str" /\ r.v = s

\* C1: with the client library unavailable, every API facade operation
\* returns False, raises nothing and issues no request.
C1_ApiFailsClosed ==
  (pc = "done" /\ call.op \in ApiOps /\ HAS_CHEF = "unbound")
    => (raised = NoExc /\ IsFalse(result) /\ requests = <<>>)

\* C6: search issues one GET to /search/{index}?q={query}&start={start},
\* then &rows={limit} iff limit was supplied, then &sort={sort} iff sort was
\* supplied, in that order; no request is issued without a client.
C6_SearchEndpoint ==
  call.op = "search"
    => IF HAS_CHEF = "True"
         THEN /\ Len(requests) = 1
              /\ requests[1].method = "GET"
              /\ requests[1].endpoint =
                   "/search/" \o call.index \o "?q=" \o call.query
                     \o "&start=" \o FormatD(call.start)
                     \o (IF IsNone(call.limit) THEN ""
                         ELSE "&rows=" \o FormatD(Val(call.limit)))
                     \o (IF IsNone(call.sort) THEN ""
                         ELSE "&sort=" \o Val(call.sort))
         ELSE requests = <<>>
C6_Witness ==
  /\ pc = "done"
  /\ call.op = "search"
  /\ call.start = 5
  /\ call.limit = Some(10)
  /\ call.sort = Some("name DESC")
  /\ Len(requests) = 1
  /\ requests[1].endpoint = "/search/node?q=name:web*&start=5&rows=10&sort=name DESC"

\* C4: discovery answers the system-path result when there is one, without
\* asking about the fallbacks; otherwise /opt/chef/bin/chef-client if it is
\* a file, otherwise /opt/opscode/bin/chef-client if it is a file, otherwise
\* nothing.  version shows the answer in the command it runs.
C4_Discovery ==
  /\ get_chef_client.cmd = Located
  /\ ~IsNone(which) => get_chef_client.probed = {}
  /\ call.op = "version"
       => /\ ~IsNone(which) => isfile_log = {}
          /\ IF IsNone(Located)
               THEN exec_calls = <<>> /\ IsStr(result, NotFoundMessage)
               ELSE exec_calls = <<Val(Located) \o " -v">>
C4_Witness ==
  /\ pc = "done"
  /\ call.op = "version"
  /\ IsNone(which)
  /\ files = {OptChef, OptOpscode}
  /\ exec_calls = <<OptChef \o " -v">>

\* the last whitespace-delimited token of an output (str.split() then [-1])
IsSpace(c) == c \in {" ", "\t", "\n"}
LastWsToken(out) ==
  LET ends == {i \in 1..Len(out) : ~IsSpace(out[i])}
  IN IF ends = {} THEN <<>>
     ELSE LET e == CHOOSE i \in ends : \A j \in ends : j <= i
              b == CHOOSE i \in 1..e :
                     /\ \A j \in i..e : ~IsSpace(out[j])
                     /\ (i = 1 \/ IsSpace(out[i - 1]))
          IN SubSeq(out, b, e)
\* the part of an output after its last space character
AfterLastSpace(out) ==
  LET sp == {i \in 1..Len(out) : out[i] = " "}
  IN IF sp = {} THEN out
     ELSE SubSeq(out, (CHOOSE i \in sp : \A j \in sp : j <= i) + 1, Len(out))

VersionOutcomes(tokenOk(_, _)) ==
  (pc = "done" /\ call.op = "version")
    => /\ raised = NoExc
       /\ IF IsNone(Located)
            THEN IsStr(result, NotFoundMessage) /\ exec_calls = <<>>
            ELSE /\ Len(exec_calls) = 1 /\ Len(exec_results) = 1
                 /\ IF exec_results[1].exc = NoExc
                      THEN /\ result.t = "chars"
                           /\ tokenOk(exec_results[1].out, result.v)
                      ELSE IsFalse(result)

\* an output with no whitespace at either end, as a process prints a version
Stripped(out) == out # <<>> /\ ~IsSpace(out[1]) /\ ~IsSpace(out[Len(out)])
WsTokenOk(out, v) == Stripped(out) => v = LastWsToken(out)
SpaceTokenOk(out, v) == v = AfterLastSpace(out)

\* C5 as stated: not located, the literal message and nothing executed;
\* executed with success, the last whitespace-delimited token of the
\* output; execution failed, False and nothing raised.
C5_VersionWhitespaceToken == VersionOutcomes(WsTokenOk)
\* C5 as amended: the same three outcomes, the token being the part of the
\* output after its last space character (the whole output when it holds no
\* space, the empty string when it ends in a space).
C5_VersionOutcomes == VersionOutcomes(SpaceTokenOk)
C5_Witness ==
  /\ pc = "done"
  /\ call.op = "version"
  /\ Len(exec_results) = 1
  /\ exec_results[1] = Returned(<<"C", " ", "1">>)
  /\ result.t = "chars"
  /\ result.v = <<"1">>

\* C2: run(force=False) with the executable located and the skip-file
\* present at the resolved path returns the message naming that path, runs
\* no process and creates no temporary file.
C2_SkipfileBlocks ==
  (call.op = "run" /\ call.args.force = "False" /\ ~IsNone(Located)
     /\ ResolvedSkipfile \in files)
    => /\ pc = "done"
       /\ raised = NoExc
       /\ IsStr(result, "Skipfile is present at " \o ResolvedSkipfile \o ", skipping")
       /\ exec_calls = <<>>
       /\ tmpjson.created = 0
C2_Witness ==
  /\ call.op = "run"
  /\ call.args.force = "False"
  /\ call.args.run_list.t = "list"
  /\ config["chef.client.skipfile"] = Some(CustomSkipfile)
  /\ files = {CustomSkipfile}
  /\ ~IsNone(which)
  /\ IsStr(result, "Skipfile is present at /etc/chef/skip_custom, skipping")
  /\ exec_calls = <<>>

\* C10: for a force value other than the boolean False, run never reads the
\* skip-file option, a present skip-file does not block it, and the located
\* executable is invoked.
C10_ForceIdentity ==
  (pc = "done" /\ call.op = "run" /\ call.args.force # "False" /\ ~IsNone(Located))
    => /\ "chef.client.skipfile" \notin option_log
       /\ ~(result.t = "str")
       /\ Len(exec_calls) = 1

\* C3: a run invocation that created a temporary file has released it once
\* the process call has ended, whether the call returned or raised.  No
\* invocation creates a file (line 290 raises NameError), so this holds of
\* every reachable state without its case ever happening.
C3_TmpReleased ==
  (pc = "done" /\ call.op = "run" /\ tmpjson.created > 0 /\ exec_results # <<>>)
    => tmpjson.state = "closed"

\* C7: run with a list run_list executes with a temporary file holding the
\* JSON object {"run_list": [...]}, each entry a JSON string in the supplied
\* order, and a command line that names the file.
Quoted(items) == [i \in 1..Len(items) |-> "\"" \o items[i] \o "\""]
JsonRunList(items) ==
  {"{\"run_list\": [" \o Join(sep, Quoted(items)) \o "]}" : sep \in {",", ", "}}
C7_RunListJson ==
  (call.op = "run" /\ call.args.run_list.t = "list" /\ ~IsNone(Located)
     /\ ~(call.args.force = "False" /\ ResolvedSkipfile \in files))
    => /\ raised = NoExc
       /\ tmpjson.created = 1
       /\ tmpjson.content \in JsonRunList(call.args.run_list.v)
       /\ exec_calls = <<Val(Located) \o " --json-attributes " \o tmpjson.name>>

ExpectedCommand(runListContributes) ==
  LET a == call.args
      flag(on, text) == IF on THEN text ELSE ""
  IN Join("", <<
       Val(Located),
       flag(runListContributes, " --json-attributes " \o tmpjson.name),
       flag(~IsNone(a.key_file) /\ Val(a.key_file) \in files,
            " --client_key " \o Val(a.key_file)),
       flag(~IsNone(a.validation_key) /\ Val(a.validation_key) \in files,
            " --validation_key " \o Val(a.validation_key)),
       flag(~IsNone(a.server), " --server " \o Val(a.server)),
       flag(~IsNone(a.environment), " --environment " \o Val(a.environment)),
       flag(~IsNone(a.log_level), " --log_level " \o Val(a.log_level)),
       flag(~IsNone(a.node_name), " --node-name " \o Val(a.node_name)),
       flag(~IsNone(a.dry_run), " --why-run") >>)

\* C8 as stated: the one command line executed is the executable followed
\* by the flags of the contributing options in the order run_list, key_file,
\* validation_key, server, environment, log_level, node_name, dry_run; every
\* supplied option contributes, key_file and validation_key only if their
\* path is a file, dry_run for any supplied value.
C8_CommandSupplied ==
  (call.op = "run" /\ exec_calls # <<>>)
    => exec_calls = <<ExpectedCommand(call.args.run_list.t # "NoneType")>>
\* C8 as amended: the same, run_list contributing only when it is a list.
C8_Command ==
  (call.op = "run" /\ exec_calls # <<>>)
    => exec_calls = <<ExpectedCommand(call.args.run_list.t = "list")>>
C8_Witness ==
  /\ pc = "exec"
  /\ call.op = "run"
  /\ call.args.dry_run = Some("False")
  /\ call.args.validation_key = Some(ValidationKey)
  /\ ValidationKey \notin files
  /\ call.args.run_list.t = "str"
  /\ exec_calls = <<"/usr/bin/chef-client"
                      \o " --client_key /etc/chef/custom.pem"
                      \o " --server http://otherchef.example.com:4000"
                      \o " --environment testing --log_level debug"
                      \o " --node-name awesome.example.com --why-run">>
====
